---- MODULE Spec2Model ----
(***************************************************************************)
(* HubSpot MCP server (src/src/hubspot_mcp/server.py): the transport       *)
(* client (HubSpotClient), its resource operations, the tool registry and  *)
(* the dispatcher (MCPServer.handle_tool_call).                            *)
(*                                                                         *)
(* Representation of Python values:                                        *)
(*   dict          a function whose domain is a set of strings             *)
(*   list          a sequence                                              *)
(*   Optional[x]   a set with no element (None) or one element             *)
(*   f-string      the sequence of its literal and interpolated pieces     *)
(*   exception     [type, text, status, body]; text is str(e) in pieces    *)
(***************************************************************************)
EXTENDS Integers, Sequences, FiniteSets, TLC

\* ------------------------------------------------------------------ bounds
\* longest `properties` list passed to a list operation
MaxProps == 2
\* longest `filters` list passed to HubSpotClient.search
MaxFilters == 2
\* number of caller tasks that may hold an invocation
NumTasks == 2
\* number of close() calls made on one server
MaxCloses == 2

\* ------------------------------------------------------- program constants
DefaultLimit == 100
NoContentStatus == 204
DefaultBaseUrl == "https://api.hubapi.com"

\* ----------------------------------------------------------- Python values
None == {}
Some(x) == {x}
The(o) == CHOOSE x \in o : TRUE

EmptyDict == [k \in {} |-> ""]
Put(d, k, v) == [x \in (DOMAIN d) \cup {k} |-> IF x = k THEN v ELSE d[x]]
Get(d, k, default) == IF k \in DOMAIN d THEN d[k] ELSE default
GetOpt(d, k) == IF k \in DOMAIN d THEN Some(d[k]) ELSE None

\* truthiness of an Optional[str]: None and "" are falsy
TruthyStr(o) == o # None /\ o # Some("")
\* truthiness of an Optional[list]: None and [] are falsy
TruthyList(o) == o # None /\ o # Some(<<>>)
\* truthiness of an Optional[dict]: None and {} are falsy
TruthyDict(o) == o # None /\ (\A d \in o : DOMAIN d # {})

\* ",".join(items): the items with a "," piece between neighbours
RECURSIVE Join(_)
Join(items) ==
  IF Len(items) = 0 THEN <<>>
  ELSE IF Len(items) = 1 THEN <<items[1]>>
  ELSE <<items[1], ",">> \o Join(Tail(items))

NoExc == None
Exc(type, text) == [type |-> type, text |-> text, status |-> 0, body |-> ""]
KeyError(key) == Exc("KeyError", <<"'", key, "'">>)

\* --------------------------------------------------------------- transport
\* A RequestSpec is what a resource operation hands to _request.
RequestSpec(method, endpoint, params, json_data) ==
  [method |-> method, endpoint |-> endpoint, params |-> params, json |-> json_data]

\* ----------------------------------------------------- resource operations
\* the query of a list operation
ListParamsAlways(limit, properties) ==
  [limit |-> limit,
   properties |-> IF properties = None THEN <<>> ELSE Join(The(properties))]

ListParams(limit, properties) ==
  IF TruthyList(properties)
    THEN [limit |-> limit, properties |-> Join(The(properties))]
    ELSE [limit |-> limit]

get_contacts(limit, properties) ==
  RequestSpec("GET", <<"/crm/v3/objects/contacts">>, Some(ListParams(limit, properties)), None)
get_contact(contact_id) ==
  RequestSpec("GET", <<"/crm/v3/objects/contacts/", contact_id>>, None, None)
create_contact(properties) ==
  RequestSpec("POST", <<"/crm/v3/objects/contacts">>, None, Some([properties |-> properties]))
update_contact(contact_id, properties) ==
  RequestSpec("PATCH", <<"/crm/v3/objects/contacts/", contact_id>>, None,
              Some([properties |-> properties]))
delete_contact(contact_id) ==
  RequestSpec("DELETE", <<"/crm/v3/objects/contacts/", contact_id>>, None, None)
get_companies(limit, properties) ==
  RequestSpec("GET", <<"/crm/v3/objects/companies">>, Some(ListParams(limit, properties)), None)
get_company(company_id) ==
  RequestSpec("GET", <<"/crm/v3/objects/companies/", company_id>>, None, None)
create_company(properties) ==
  RequestSpec("POST", <<"/crm/v3/objects/companies">>, None, Some([properties |-> properties]))
update_company(company_id, properties) ==
  RequestSpec("PATCH", <<"/crm/v3/objects/companies/", company_id>>, None,
              Some([properties |-> properties]))
get_deals(limit, properties) ==
  RequestSpec("GET", <<"/crm/v3/objects/deals">>, Some(ListParams(limit, properties)), None)
get_deal(deal_id) ==
  RequestSpec("GET", <<"/crm/v3/objects/deals/", deal_id>>, None, None)
create_deal(properties) ==
  RequestSpec("POST", <<"/crm/v3/objects/deals">>, None, Some([properties |-> properties]))
\* (variant: every filter gets a filter group of its own)
searchGroupPerFilter(object_type, filters, limit) ==
  RequestSpec("POST", <<"/crm/v3/objects/", object_type, "/search">>, None,
              Some([filterGroups |-> [i \in 1 .. Len(filters) |-> [filters |-> <<filters[i]>>]],
                    limit |-> limit]))
search(object_type, filters, limit) ==
  RequestSpec("POST", <<"/crm/v3/objects/", object_type, "/search">>, None,
              Some([filterGroups |-> <<[filters |-> filters]>>, limit |-> limit]))

\* ---------------------------------------------------------------- handlers
\* A handler runs up to its call of a resource operation.  Its result is
\*   exc     the exception raised while binding the arguments, if any
\*   rs      the RequestSpec of the resource operation it calls, if it got there
\*   params  the caller's argument dict as the handler leaves it
Bound(rs, params) == [exc |-> NoExc, rs |-> Some(rs), params |-> params]
BindFails(e, params) == [exc |-> Some(e), rs |-> None, params |-> params]

_handle_list_contacts(params) ==
  Bound(get_contacts(Get(params, "limit", DefaultLimit), GetOpt(params, "properties")), params)

_handle_get_contact(params) ==
  IF "contact_id" \notin DOMAIN params THEN BindFails(KeyError("contact_id"), params)
  ELSE Bound(get_contact(params["contact_id"]), params)

\* properties = params.get("properties", {}) is the caller's own dict when the
\* key is present, so the shorthand assignments write into the caller's dict.
\* (variant: the shorthand fields are set first and the caller's map is
\* laid over them, so the explicit map wins)
FoldShorthandExplicitWins(properties, params, keys) ==
  [k \in (DOMAIN properties) \cup (keys \cap DOMAIN params) |->
     IF k \in DOMAIN properties THEN properties[k] ELSE params[k]]
\* lines 407-415 and 437-441: the explicit map, or {}, with each shorthand
\* key that params holds assigned over it
FoldShorthand(properties, params, keys) ==
  [k \in (DOMAIN properties) \cup (keys \cap DOMAIN params) |->
     IF k \in keys /\ k \in DOMAIN params THEN params[k] ELSE properties[k]]

_handle_create_contact(params) ==
  LET properties == FoldShorthand(Get(params, "properties", EmptyDict), params,
                                  {"email", "firstname", "lastname"})
  IN Bound(create_contact(properties),
           IF "properties" \in DOMAIN params
             THEN Put(params, "properties", properties) ELSE params)

_handle_update_contact(params) ==
  IF "contact_id" \notin DOMAIN params THEN BindFails(KeyError("contact_id"), params)
  ELSE IF "properties" \notin DOMAIN params THEN BindFails(KeyError("properties"), params)
  ELSE Bound(update_contact(params["contact_id"], params["properties"]), params)

_handle_list_companies(params) ==
  Bound(get_companies(Get(params, "limit", DefaultLimit), None), params)

_handle_get_company(params) ==
  IF "company_id" \notin DOMAIN params THEN BindFails(KeyError("company_id"), params)
  ELSE Bound(get_company(params["company_id"]), params)

_handle_create_company(params) ==
  LET properties == FoldShorthand(Get(params, "properties", EmptyDict), params, {"name"})
  IN Bound(create_company(properties),
           IF "properties" \in DOMAIN params
             THEN Put(params, "properties", properties) ELSE params)

_handle_list_deals(params) ==
  Bound(get_deals(Get(params, "limit", DefaultLimit), None), params)

_handle_search(params) ==
  IF "object_type" \notin DOMAIN params THEN BindFails(KeyError("object_type"), params)
  ELSE IF "property" \notin DOMAIN params THEN BindFails(KeyError("property"), params)
  ELSE IF "value" \notin DOMAIN params THEN BindFails(KeyError("value"), params)
  ELSE Bound(search(params["object_type"],
                    <<[propertyName |-> params["property"],
                       operator |-> Get(params, "operator", "EQ"),
                       value |-> params["value"]]>>,
                    Get(params, "limit", DefaultLimit)),
             params)

\* ---------------------------------------------------------------- registry
\* _register_tools: each tool with its description, the schema of its
\* arguments and its bound handler, in registration order.
\* the JSON schema of a tool's arguments: each property with its type, and
\* the `required` list where the schema has one
Schema(properties, required) ==
  [type |-> "object", properties |-> properties,
   required |-> IF required = <<>> THEN None ELSE Some(required)]

\* one entry of self.tools under its key; `required` is the set of the
\* schema's required list
Tool(name, description, properties, required, handler) ==
  [name |-> name, description |-> description,
   parameters |-> Schema(properties, required),
   required |-> {required[i] : i \in DOMAIN required},
   handler |-> handler]

_register_tools ==
  << Tool("list_contacts", "List contacts from HubSpot CRM",
          [limit |-> "integer", properties |-> "array"], <<>>, "_handle_list_contacts"),
     Tool("get_contact", "Get a specific contact by ID",
          [contact_id |-> "string"], <<"contact_id">>, "_handle_get_contact"),
     Tool("create_contact", "Create a new contact in HubSpot",
          [email |-> "string", firstname |-> "string", lastname |-> "string",
           properties |-> "object"], <<"email">>, "_handle_create_contact"),
     Tool("update_contact", "Update an existing contact",
          [contact_id |-> "string", properties |-> "object"],
          <<"contact_id", "properties">>, "_handle_update_contact"),
     Tool("list_companies", "List companies from HubSpot CRM",
          [limit |-> "integer"], <<>>, "_handle_list_companies"),
     Tool("get_company", "Get a specific company by ID",
          [company_id |-> "string"], <<"company_id">>, "_handle_get_company"),
     Tool("create_company", "Create a new company in HubSpot",
          [name |-> "string", properties |-> "object"], <<"name">>, "_handle_create_company"),
     Tool("list_deals", "List deals from HubSpot CRM",
          [limit |-> "integer"], <<>>, "_handle_list_deals"),
     Tool("search", "Search for objects in HubSpot CRM",
          [object_type |-> "string", property |-> "string", value |-> "string",
           operator |-> "string"],
          <<"object_type", "property", "value">>, "_handle_search") >>

\* the keys of a registry and the entry under a key
Names(reg) == {reg[i].name : i \in DOMAIN reg}
Entry(reg, name) == reg[CHOOSE i \in DOMAIN reg : reg[i].name = name]

\* MCPServer.get_available_tools over the registry reg
get_available_toolsWithHandler(reg) == reg

get_available_tools(reg) ==
  [i \in DOMAIN reg |-> [name |-> reg[i].name,
                         description |-> reg[i].description,
                         parameters |-> reg[i].parameters]]

ToolNames == Names(_register_tools)
ToolEntry(name) == Entry(_register_tools, name)

\* await handler(params): the bound method the registry entry refers to
CallHandler(handler, params) ==
  CASE handler = "_handle_list_contacts" -> _handle_list_contacts(params)
    [] handler = "_handle_get_contact" -> _handle_get_contact(params)
    [] handler = "_handle_create_contact" -> _handle_create_contact(params)
    [] handler = "_handle_update_contact" -> _handle_update_contact(params)
    [] handler = "_handle_list_companies" -> _handle_list_companies(params)
    [] handler = "_handle_get_company" -> _handle_get_company(params)
    [] handler = "_handle_create_company" -> _handle_create_company(params)
    [] handler = "_handle_list_deals" -> _handle_list_deals(params)
    [] handler = "_handle_search" -> _handle_search(params)

\* --------------------------------------------------------- transport client
\* HubSpotClient._get_headers
_get_headers(cfg) ==
  LET base == ("Content-Type" :> <<"application/json">>)
  IN IF TruthyStr(cfg.access_token)
       THEN Put(base, "Authorization", <<"Bearer ", The(cfg.access_token)>>)
     ELSE IF TruthyStr(cfg.api_key)
       THEN Put(base, "Authorization", <<"Bearer ", The(cfg.api_key)>>)
     ELSE base

\* urljoin(base_url, endpoint) for a base URL without a path and an endpoint
\* that starts with "/": the origin followed by the endpoint
urljoin(base_url, endpoint) == <<base_url>> \o endpoint

\* (variant: the API key is appended whenever it is set, token or not)
AuthParamsAlwaysKey(cfg, params) ==
  IF TruthyStr(cfg.api_key)
    THEN Some(Put(IF TruthyDict(params) THEN The(params) ELSE EmptyDict,
                  "hapikey", The(cfg.api_key)))
    ELSE params
\* _request, lines 66-71: the query parameters that go out
AuthParams(cfg, params) ==
  IF TruthyStr(cfg.api_key) /\ ~TruthyStr(cfg.access_token)
    THEN Some(Put(IF TruthyDict(params) THEN The(params) ELSE EmptyDict,
                  "hapikey", The(cfg.api_key)))
    ELSE params

\* _request, lines 66-79: the request handed to self.client.request; the
\* client merges the headers it was constructed with into every request
Outbound(cfg, hdrs, base_url, rs) ==
  [method |-> rs.method,
   url |-> urljoin(base_url, rs.endpoint),
   headers |-> hdrs,
   params |-> AuthParams(cfg, rs.params),
   json |-> rs.json]

\* httpx.AsyncClient.request on a closed client
ClientClosedError == Exc("RuntimeError", <<"Cannot send a request, as the client has been closed.">>)

\* self.client.request checks the state of the client before it sends
\* anything: the failure of that check, if any
ClosedCheckNever(isClosed) == NoExc

ClosedCheck(isClosed) == IF isClosed THEN Some(ClientClosedError) ELSE NoExc

\* the connection pool of a client that is closed while requests are in flight
PoolClosedError ==
  Exc("RuntimeError", <<"The connection pool was closed while requests were still in-flight.">>)

\* self.client.aclose(): the exceptions it can raise to the caller of close().
\* A closed client is left alone.  An open one closes its connection pool;
\* with requests in flight the pool of some httpcore releases raises after it
\* has closed the connections and the pool of others returns normally.
aclose(isClosed, inFlight) ==
  IF isClosed THEN {NoExc}
  ELSE IF inFlight THEN {NoExc, Some(PoolClosedError)}
  ELSE {NoExc}

\* ---------------------------------------------------------------- responses
HttpResponse(status, body) == [kind |-> "http", status |-> status, body |-> body, error |-> ""]
TransportFailure(error) == [kind |-> "error", status |-> 0, body |-> "", error |-> error]

BodyContact == "{\"id\": \"456\"}"
BodyList == "{\"results\": []}"
BodyError == "{\"message\": \"boom\"}"
BodyHtml == "<html>Bad Gateway</html>"
BodyEmpty == ""

ValidJson(body) == body \in {BodyContact, BodyList, BodyError}
\* response.json() of a valid body
ParseJson(body) ==
  CASE body = BodyContact -> [id |-> "456"]
    [] body = BodyList -> [results |-> <<>>]
    [] body = BodyError -> [message |-> "boom"]

StatusStr(status) ==
  CASE status = 200 -> "200" [] status = 201 -> "201" [] status = 204 -> "204"
    [] status = 304 -> "304"
    [] status = 404 -> "404" [] status = 500 -> "500" [] status = 502 -> "502"
ReasonPhrase(status) ==
  CASE status = 200 -> "OK" [] status = 201 -> "Created" [] status = 204 -> "No Content"
    [] status = 304 -> "Not Modified"
    [] status = 404 -> "Not Found" [] status = 500 -> "Internal Server Error"
    [] status = 502 -> "Bad Gateway"

\* httpx.Response.is_success, which raise_for_status tests: 2xx only
\* (variant: a redirect status counts as a success as well)
is_successOrRedirect(status) == 200 <= status /\ status <= 399

is_success(status) == 200 <= status /\ status <= 299

\* str(e) of the httpx.HTTPStatusError that response.raise_for_status() raises
HTTPStatusText(req, status) ==
  <<IF status >= 500 THEN "Server error"
    ELSE IF status >= 400 THEN "Client error"
    ELSE "Redirect response",
    " '", StatusStr(status), " ", ReasonPhrase(status), "' for url '">>
  \o req.url
  \o <<"'\nFor more information check: https://developer.mozilla.org/en-US/docs/Web/HTTP/Status/",
       StatusStr(status)>>

\* (variant: only 4xx statuses raise)
raise_for_statusClientOnly(req, r) ==
  IF r.status < 400 \/ r.status > 499 THEN NoExc
  ELSE Some([type |-> "HTTPStatusError", text |-> HTTPStatusText(req, r.status),
             status |-> r.status, body |-> r.body])
\* response.raise_for_status(): the exception raised, if any; the exception
\* keeps the response (e.response.status_code, e.response.text)
raise_for_status(req, r) ==
  IF is_success(r.status) THEN NoExc
  ELSE Some([type |-> "HTTPStatusError", text |-> HTTPStatusText(req, r.status),
             status |-> r.status, body |-> r.body])

\* (variant: the normalized value has no message)
NoContentBare == [success |-> TRUE]
NoContent == [success |-> TRUE, message |-> "Operation completed successfully"]

Returns(v) == [exc |-> NoExc, val |-> Some(v)]
Raises(e) == [exc |-> Some(e), val |-> None]

\* str(e) of the exceptions httpx raises for transport failures
TransportText(error) ==
  CASE error = "ConnectError" -> <<"All connection attempts failed">>
    [] error = "ReadTimeout" -> <<"">>

\* response.json()
response_json(r) ==
  IF ValidJson(r.body) THEN Returns(ParseJson(r.body))
  ELSE Raises(Exc("JSONDecodeError", <<"Expecting value: line 1 column 1 (char 0)">>))

\* (variant: no special case for 204, every successful body is parsed)
RequestResultParsesNoContent(req, r) ==
  IF r.kind = "error" THEN Raises(Exc(r.error, TransportText(r.error)))
  ELSE IF raise_for_status(req, r) # NoExc THEN Raises(The(raise_for_status(req, r)))
  ELSE response_json(r)
\* _request, lines 73-91, from the answer of self.client.request on: both
\* except clauses log and re-raise
RequestResult(req, r) ==
  IF r.kind = "error" THEN Raises(Exc(r.error, TransportText(r.error)))
  ELSE IF raise_for_status(req, r) # NoExc THEN Raises(The(raise_for_status(req, r)))
  ELSE IF r.status = NoContentStatus THEN Returns(NoContent)
  ELSE response_json(r)

\* --------------------------------------------------------------- dispatcher
UnknownTool(name) == Exc("ValueError", <<"Unknown tool: ", name>>)
FailureEnvelope(e) == [success |-> FALSE, error |-> e.text]

\* (variant: the success envelope always carries an error key as well)
SuccessEnvelopeWithError(result) == [success |-> TRUE, result |-> result, error |-> <<>>]
SuccessEnvelope(result) == [success |-> TRUE, result |-> result]

\* (variant: the name check sits inside the try block, so an unknown name
\* comes back as a failure envelope)
LookupFailsInsideTry(name) == Returns(FailureEnvelope(UnknownTool(name)))
\* handle_tool_call, lines 463-464: the name is not a key of self.tools
LookupFails(name) == Raises(UnknownTool(name))

\* (variant: the except clause names httpx.HTTPStatusError only)
EnvelopeCatchesStatusOnly(outcome) ==
  IF outcome.exc # NoExc /\ The(outcome.exc).type = "HTTPStatusError"
    THEN Returns(FailureEnvelope(The(outcome.exc)))
  ELSE IF outcome.exc # NoExc THEN outcome
  ELSE Returns(SuccessEnvelope(The(outcome.val)))
\* handle_tool_call, lines 469-474: the envelope made of what the handler did
Envelope(outcome) ==
  IF outcome.exc # NoExc THEN Returns(FailureEnvelope(The(outcome.exc)))
  ELSE Returns(SuccessEnvelope(The(outcome.val)))

\* ------------------------------------------------------------------- inputs
Opt(S) == {None} \cup {Some(x) : x \in S}
\* the dict with key k when o holds a value, the empty dict when o is None
Field(k, o) == IF o = None THEN EmptyDict ELSE (k :> The(o))

Tasks == 1 .. NumTasks

PropNames == {"email", "firstname"}
PropLists == UNION {[1 .. n -> PropNames] : n \in 0 .. MaxProps}
ContactProps == {EmptyDict, [email |-> "old@b.com", lastname |-> "Y"]}
CompanyProps == {EmptyDict, [name |-> "Old Inc", domain |-> "b.com"]}
DealProps == {[dealname |-> "Big"]}
Ids == {"123"}
Limits == {10}
Filters == {[propertyName |-> "email", operator |-> "EQ", value |-> "a@b.com"],
            [propertyName |-> "lastname", operator |-> "NEQ", value |-> "Y"]}
FilterLists == UNION {[1 .. n -> Filters] : n \in 0 .. MaxFilters}

ListArgs == {Field("limit", l) @@ Field("properties", p) : l \in Opt(Limits), p \in Opt(PropLists)}
LimitArgs == {Field("limit", l) : l \in Opt(Limits)}
IdArgs(key) == {Field(key, i) : i \in Opt(Ids)}

\* the argument maps a caller passes to handle_tool_call, per tool name
ToolArgs(name) ==
  CASE name = "list_contacts" -> ListArgs
    [] name = "get_contact" -> IdArgs("contact_id")
    [] name = "create_contact" ->
         {Field("email", e) @@ Field("firstname", f) @@ Field("lastname", l) @@ Field("properties", p) :
            e \in Opt({"a@b.com"}), f \in Opt({"X"}), l \in Opt({"Z"}), p \in Opt(ContactProps)}
    [] name = "update_contact" ->
         {Field("contact_id", i) @@ Field("properties", p) : i \in Opt(Ids), p \in Opt(ContactProps)}
    [] name = "list_companies" -> LimitArgs
    [] name = "get_company" -> IdArgs("company_id")
    [] name = "create_company" ->
         {Field("name", n) @@ Field("properties", p) : n \in Opt({"Acme"}), p \in Opt(CompanyProps)}
    [] name = "list_deals" -> LimitArgs
    [] name = "search" ->
         {Field("object_type", o) @@ Field("property", p) @@ Field("value", v)
            @@ Field("operator", op) @@ Field("limit", l) :
            o \in Opt({"contacts"}), p \in Opt({"email"}), v \in Opt({"a@b.com"}),
            op \in Opt({"CONTAINS"}), l \in Opt(Limits)}
    [] OTHER -> IdArgs("contact_id")

\* names a caller may pass that the registry does not hold
UnregisteredNames == {"delete_contact", "unknown_tool"}

\* the resource operations of HubSpotClient and the arguments a caller passes
ClientOps == {"get_contacts", "get_contact", "create_contact", "update_contact",
              "delete_contact", "get_companies", "get_company", "create_company",
              "update_company", "get_deals", "get_deal", "create_deal", "search"}

ClientArgs(op) ==
  CASE op \in {"get_contacts", "get_companies", "get_deals"} -> ListArgs
    [] op \in {"get_contact", "delete_contact"} -> {[contact_id |-> i] : i \in Ids}
    [] op = "create_contact" -> {[properties |-> p] : p \in ContactProps}
    [] op = "update_contact" -> {[contact_id |-> i, properties |-> p] : i \in Ids, p \in ContactProps}
    [] op = "get_company" -> {[company_id |-> i] : i \in Ids}
    [] op = "create_company" -> {[properties |-> p] : p \in CompanyProps}
    [] op = "update_company" -> {[company_id |-> i, properties |-> p] : i \in Ids, p \in CompanyProps}
    [] op = "get_deal" -> {[deal_id |-> i] : i \in Ids}
    [] op = "create_deal" -> {[properties |-> p] : p \in DealProps}
    [] op = "search" ->
         {[object_type |-> "contacts", filters |-> fs] @@ Field("limit", l) :
            fs \in FilterLists, l \in Opt(Limits)}

\* the call of a resource operation with its arguments, defaults filled in
ClientOp(op, a) ==
  CASE op = "get_contacts" -> get_contacts(Get(a, "limit", DefaultLimit), GetOpt(a, "properties"))
    [] op = "get_contact" -> get_contact(a.contact_id)
    [] op = "create_contact" -> create_contact(a.properties)
    [] op = "update_contact" -> update_contact(a.contact_id, a.properties)
    [] op = "delete_contact" -> delete_contact(a.contact_id)
    [] op = "get_companies" -> get_companies(Get(a, "limit", DefaultLimit), GetOpt(a, "properties"))
    [] op = "get_company" -> get_company(a.company_id)
    [] op = "create_company" -> create_company(a.properties)
    [] op = "update_company" -> update_company(a.company_id, a.properties)
    [] op = "get_deals" -> get_deals(Get(a, "limit", DefaultLimit), GetOpt(a, "properties"))
    [] op = "get_deal" -> get_deal(a.deal_id)
    [] op = "create_deal" -> create_deal(a.properties)
    [] op = "search" -> search(a.object_type, a.filters, Get(a, "limit", DefaultLimit))

\* what the remote API, or the network on the way to it, answers
Remote ==
  {HttpResponse(200, BodyContact), HttpResponse(200, BodyList), HttpResponse(200, BodyHtml),
   HttpResponse(201, BodyContact), HttpResponse(204, BodyEmpty), HttpResponse(204, BodyContact),
   HttpResponse(304, BodyEmpty),
   HttpResponse(404, BodyError), HttpResponse(500, BodyError), HttpResponse(502, BodyHtml),
   TransportFailure("ConnectError"), TransportFailure("ReadTimeout")}

Configs ==
  {[api_key |-> k, access_token |-> a, api_base_url |-> DefaultBaseUrl] :
     k \in Opt({"", "key-1"}), a \in Opt({"", "tok-1"})}

\* -------------------------------------------------------------------- state
VARIABLES
  config,    \* HubSpotConfig shared by MCPServer and HubSpotClient
  config0,   \* the values config held when __init__ ran
  headers,   \* HubSpotClient.headers, computed by __init__
  base_url,  \* HubSpotClient.base_url, copied by __init__
  tools,     \* MCPServer.tools, the registry built by __init__
  closed,    \* whether the httpx.AsyncClient has been closed
  closes,    \* how many close() calls have been made
  close_exc, \* the exception the last close() raised to its caller
  pc,        \* per task: "idle", "waiting" (suspended in client.request), "done"
  call,      \* per task: the call as the caller made it
  argobj,    \* per task: the caller's argument object as the call left it
  handled,   \* per task: the handler the dispatcher invoked
  reqs,      \* per task: the outbound requests the call issued
  resp,      \* per task: what the remote answered
  ret,       \* per task: the value the call returned
  exc,       \* per task: the exception the call raised to its caller
  ahead      \* per task: the tasks that were suspended when its call started
             \* and have not been answered since

vars == <<config, config0, headers, base_url, tools, closed, closes, close_exc,
          pc, call, argobj, handled, reqs, resp, ret, exc, ahead>>
client == <<config, config0, headers, base_url, tools, closed, closes, close_exc>>

\* MCPServer.__init__ / HubSpotClient.__init__
Init ==
  /\ config \in Configs
  /\ config0 = config
  /\ headers = _get_headers(config)
  /\ base_url = config.api_base_url
  /\ tools = _register_tools
  /\ closed = FALSE
  /\ closes = 0
  /\ close_exc = NoExc
  /\ pc = [t \in Tasks |-> "idle"]
  /\ call = [t \in Tasks |-> None]
  /\ argobj = [t \in Tasks |-> None]
  /\ handled = [t \in Tasks |-> None]
  /\ reqs = [t \in Tasks |-> <<>>]
  /\ resp = [t \in Tasks |-> None]
  /\ ret = [t \in Tasks |-> None]
  /\ exc = [t \in Tasks |-> None]
  /\ ahead = [t \in Tasks |-> {}]

\* the tasks suspended in self.client.request
Suspended == {u \in Tasks : pc[u] = "waiting"}

\* handle_tool_call and the resource operations take no lock: a task that
\* holds no call can start one whatever the other tasks are doing
AdmitsSerialized(t) == pc[t] = "idle" /\ Suspended = {}

Admits(t) == pc[t] = "idle"

\* the request of a call is a local of its own coroutine: issuing it changes
\* the requests of task t only
IssueShared(rq, t, req) == [u \in DOMAIN rq |-> IF u = t \/ rq[u] # <<>> THEN <<req>> ELSE rq[u]]

Issue(rq, t, req) == [rq EXCEPT ![t] = <<req>>]

\* what the caller of call c gets for the outcome o of the resource operation
Deliver(c, o) == IF c.via = "tool" THEN Envelope(o) ELSE o

\* A call runs without suspending until self.client.request awaits the
\* network: it ends there and then when binding fails or the client is
\* closed, and is left waiting with its request issued otherwise.
Begin(t, c, h, b) ==
  LET early == IF b.exc # NoExc THEN Some(Deliver(c, Raises(The(b.exc))))
               ELSE IF ClosedCheck(closed) # NoExc
                 THEN Some(Deliver(c, Raises(The(ClosedCheck(closed)))))
               ELSE None
  IN /\ call' = [call EXCEPT ![t] = Some(c)]
     /\ handled' = [handled EXCEPT ![t] = h]
     /\ argobj' = [argobj EXCEPT ![t] = Some(b.params)]
     /\ resp' = [resp EXCEPT ![t] = None]
     /\ ahead' = [ahead EXCEPT ![t] = Suspended]
     /\ IF early # None
          THEN /\ pc' = [pc EXCEPT ![t] = "done"]
               /\ reqs' = [reqs EXCEPT ![t] = <<>>]
               /\ ret' = [ret EXCEPT ![t] = The(early).val]
               /\ exc' = [exc EXCEPT ![t] = The(early).exc]
          ELSE /\ pc' = [pc EXCEPT ![t] = "waiting"]
               /\ reqs' = Issue(reqs, t, Outbound(config, headers, base_url, The(b.rs)))
               /\ ret' = [ret EXCEPT ![t] = None]
               /\ exc' = [exc EXCEPT ![t] = None]

\* handle_tool_call(tool_name, params), up to its first suspension
Invoke(t, name, params) ==
  /\ Admits(t)
  /\ IF name \notin Names(tools)
       THEN /\ call' = [call EXCEPT ![t] = Some([via |-> "tool", name |-> name, args |-> params])]
            /\ handled' = [handled EXCEPT ![t] = None]
            /\ argobj' = [argobj EXCEPT ![t] = Some(params)]
            /\ resp' = [resp EXCEPT ![t] = None]
            /\ ahead' = [ahead EXCEPT ![t] = Suspended]
            /\ pc' = [pc EXCEPT ![t] = "done"]
            /\ reqs' = [reqs EXCEPT ![t] = <<>>]
            /\ ret' = [ret EXCEPT ![t] = LookupFails(name).val]
            /\ exc' = [exc EXCEPT ![t] = LookupFails(name).exc]
       ELSE Begin(t, [via |-> "tool", name |-> name, args |-> params],
                  Some(Entry(tools, name).handler),
                  CallHandler(Entry(tools, name).handler, params))
  /\ UNCHANGED client

\* a direct call of a resource operation of HubSpotClient
ClientCall(t, op, a) ==
  /\ Admits(t)
  /\ Begin(t, [via |-> "client", name |-> op, args |-> a], None, Bound(ClientOp(op, a), a))
  /\ UNCHANGED client

\* MCPServer.get_available_tools(): synchronous, returns the listing
ListTools(t) ==
  /\ pc[t] = "idle"
  /\ pc' = [pc EXCEPT ![t] = "done"]
  /\ call' = [call EXCEPT ![t] = Some([via |-> "list", name |-> "get_available_tools",
                                       args |-> EmptyDict])]
  /\ ret' = [ret EXCEPT ![t] = Some(get_available_tools(tools))]
  /\ exc' = [exc EXCEPT ![t] = None]
  /\ reqs' = [reqs EXCEPT ![t] = <<>>]
  /\ UNCHANGED <<client, argobj, handled, resp, ahead>>

\* the network call of a waiting task completes with answer r; a failed
\* request is sent once more before the failure is reported
RespondRetries(t, r) ==
  /\ pc[t] = "waiting"
  /\ IF RequestResult(reqs[t][1], r).exc # NoExc /\ Len(reqs[t]) < 2
       THEN /\ reqs' = [reqs EXCEPT ![t] = Append(@, @[1])]
            /\ UNCHANGED <<client, pc, call, argobj, handled, resp, ret, exc, ahead>>
       ELSE /\ LET o == Deliver(The(call[t]), RequestResult(reqs[t][1], r))
               IN /\ ret' = [ret EXCEPT ![t] = o.val]
                  /\ exc' = [exc EXCEPT ![t] = o.exc]
            /\ resp' = [resp EXCEPT ![t] = Some(r)]
            /\ pc' = [pc EXCEPT ![t] = "done"]
            /\ ahead' = [u \in Tasks |-> ahead[u] \ {t}]
            /\ UNCHANGED <<client, call, argobj, handled, reqs>>

\* the network call of a waiting task completes with answer r; the rest of
\* _request and of handle_tool_call runs
Respond(t, r) ==
  /\ pc[t] = "waiting"
  /\ LET o == Deliver(The(call[t]), RequestResult(reqs[t][1], r))
     IN /\ ret' = [ret EXCEPT ![t] = o.val]
        /\ exc' = [exc EXCEPT ![t] = o.exc]
  /\ resp' = [resp EXCEPT ![t] = Some(r)]
  /\ pc' = [pc EXCEPT ![t] = "done"]
  /\ ahead' = [u \in Tasks |-> ahead[u] \ {t}]
  /\ UNCHANGED <<client, call, argobj, handled, reqs>>

\* the caller takes the outcome of its finished call and is free to call again
Return(t) ==
  /\ pc[t] = "done"
  /\ pc' = [pc EXCEPT ![t] = "idle"]
  /\ call' = [call EXCEPT ![t] = None]
  /\ argobj' = [argobj EXCEPT ![t] = None]
  /\ handled' = [handled EXCEPT ![t] = None]
  /\ reqs' = [reqs EXCEPT ![t] = <<>>]
  /\ resp' = [resp EXCEPT ![t] = None]
  /\ ret' = [ret EXCEPT ![t] = None]
  /\ exc' = [exc EXCEPT ![t] = None]
  /\ ahead' = [ahead EXCEPT ![t] = {}]
  /\ UNCHANGED client

\* whether some call is suspended in self.client.request
InFlight == Suspended # {}

\* MCPServer.close / HubSpotClient.close
Close ==
  /\ closes < MaxCloses
  /\ closes' = closes + 1
  /\ close_exc' \in aclose(closed, InFlight)
  /\ closed' = TRUE
  /\ UNCHANGED <<config, config0, headers, base_url, tools, pc, call, argobj, handled, reqs, resp, ret,
                 exc, ahead>>

\* one caller that awaits each call before it makes the next, as the tests
\* and the demo drive the server; its calls range over every tool and
\* operation
Callers == {1}

Next ==
  \/ \E t \in Callers : \E name \in ToolNames \cup UnregisteredNames :
       \E params \in ToolArgs(name) : Invoke(t, name, params)
  \/ \E t \in Callers : \E op \in ClientOps : \E a \in ClientArgs(op) : ClientCall(t, op, a)
  \/ \E t \in Callers : ListTools(t)
  \/ \E t \in Callers : \E r \in Remote : Respond(t, r)
  \/ \E t \in Callers : Return(t)
  \/ Close

Spec == Init /\ [][Next]_vars

\* Callers that do not await one another: every task may hold a call while
\* the others are suspended in theirs.  The configurations, calls and
\* answers are a few of those of Spec so that the interleavings stay
\* enumerable.
ConcurrentConfigs ==
  {cfg \in Configs : cfg.api_key = Some("key-1") /\ cfg.access_token \in {None, Some("tok-1")}}
ConcurrentNames == {"get_contact", "create_contact", "unknown_tool"}
ConcurrentArgs(name) ==
  IF name = "create_contact"
    THEN {EmptyDict,
          [email |-> "a@b.com", properties |-> [email |-> "old@b.com", lastname |-> "Y"]]}
    ELSE IdArgs("contact_id")
ConcurrentRemote ==
  {HttpResponse(200, BodyContact), HttpResponse(204, BodyEmpty), TransportFailure("ReadTimeout")}

InitConcurrent == Init /\ config \in ConcurrentConfigs

NextConcurrent ==
  \/ \E t \in Tasks : \E name \in ConcurrentNames :
       \E params \in ConcurrentArgs(name) : Invoke(t, name, params)
  \/ \E t \in Tasks : \E a \in ClientArgs("delete_contact") : ClientCall(t, "delete_contact", a)
  \/ \E t \in Tasks : \E r \in ConcurrentRemote : Respond(t, r)
  \/ \E t \in Tasks : Return(t)
  \/ Close

SpecConcurrent == InitConcurrent /\ [][NextConcurrent]_vars

\* The owner of the configuration object assigns its credentials after the
\* server was built: HubSpotConfig is a mutable settings object and
\* HubSpotClient keeps a reference to it, not a copy.
NewKeys == {None, Some("key-2")}
NewTokens == {None, Some("tok-2")}

Reconfigure(k, a) ==
  /\ config' = [config EXCEPT !.api_key = k, !.access_token = a]
  /\ config' # config
  /\ UNCHANGED <<config0, headers, base_url, tools, closed, closes, close_exc,
                 pc, call, argobj, handled, reqs, resp, ret, exc, ahead>>

NextReconfigure ==
  \/ \E t \in Callers : \E params \in IdArgs("contact_id") : Invoke(t, "get_contact", params)
  \/ \E t \in Callers : \E a \in ClientArgs("create_deal") : ClientCall(t, "create_deal", a)
  \/ \E t \in Callers : \E r \in ConcurrentRemote : Respond(t, r)
  \/ \E t \in Callers : Return(t)
  \/ \E k \in NewKeys : \E a \in NewTokens : Reconfigure(k, a)

SpecReconfigure == Init /\ [][NextReconfigure]_vars

\* =================================================================== claims
Finished(t) == pc[t] = "done"
ToolCall(t) == call[t] # None /\ The(call[t]).via = "tool"
DirectCall(t) == call[t] # None /\ The(call[t]).via = "client"
RegisteredCall(t) == ToolCall(t) /\ The(call[t]).name \in ToolNames
UnregisteredCall(t) == ToolCall(t) /\ The(call[t]).name \notin ToolNames
Issued(t) == reqs[t] # <<>>
Answered(t) == resp[t] # None

\* the failure of the handler of a finished registered call, if it failed:
\* while binding, on the closed client, or on the answer of the remote
HandlerFailure(t) ==
  LET b == CallHandler(ToolEntry(The(call[t]).name).handler, The(call[t]).args)
  IN IF b.exc # NoExc THEN b.exc
     ELSE IF ~Issued(t) THEN Some(ClientClosedError)
     ELSE RequestResult(reqs[t][1], The(resp[t])).exc

\* C1: a call of a name that is not a key of the registry is over at once:
\* it raises ValueError("Unknown tool: <name>") to the caller, returns no
\* envelope, invokes no handler and issues no request.
C1_UnknownToolRaises ==
  \A t \in Tasks : UnregisteredCall(t) =>
    /\ Finished(t)
    /\ exc[t] = Some([type |-> "ValueError", text |-> <<"Unknown tool: ", The(call[t]).name>>,
                      status |-> 0, body |-> ""])
    /\ ret[t] = None
    /\ handled[t] = None
    /\ reqs[t] = <<>>

C1_Witness ==
  \E t \in Tasks : UnregisteredCall(t) /\ Finished(t) /\ The(call[t]).name = "unknown_tool"
                   /\ "contact_id" \in DOMAIN The(call[t]).args

\* C2: when the handler of a registered tool fails (a required key is
\* missing, the transport fails, the status is not 2xx, the body is not
\* JSON, the client is closed), handle_tool_call raises nothing and returns
\* {success: false, error: <text of that failure>}.
C2_FailureIsEnveloped ==
  \A t \in Tasks : (Finished(t) /\ RegisteredCall(t) /\ HandlerFailure(t) # None) =>
    /\ exc[t] = None
    /\ ret[t] = Some([success |-> FALSE, error |-> The(HandlerFailure(t)).text])

C2_Witness ==
  \E t \in Tasks :
    /\ Finished(t) /\ RegisteredCall(t) /\ Answered(t)
    /\ The(resp[t]).kind = "error"
    /\ ret[t] = Some([success |-> FALSE, error |-> <<"All connection attempts failed">>])

\* C3: when the handler of a registered tool returns v, handle_tool_call
\* returns exactly {success: true, result: v}; an envelope has either a
\* result or an error, never both; success is true exactly when the handler
\* did not fail.
C3_SuccessEnvelope ==
  \A t \in Tasks : (Finished(t) /\ RegisteredCall(t)) =>
    /\ exc[t] = None
    /\ ret[t] # None
    /\ LET e == The(ret[t])
       IN /\ DOMAIN e \in {{"success", "result"}, {"success", "error"}}
          /\ e.success = (HandlerFailure(t) = None)
          /\ e.success => /\ DOMAIN e = {"success", "result"}
                          /\ e.result = The(RequestResult(reqs[t][1], The(resp[t])).val)
          /\ ~e.success => DOMAIN e = {"success", "error"}

C3_Witness ==
  \E t \in Tasks :
    /\ Finished(t) /\ RegisteredCall(t) /\ The(call[t]).name = "get_contact"
    /\ resp[t] = Some(HttpResponse(200, BodyContact))
    /\ ret[t] = Some([success |-> TRUE, result |-> [id |-> "456"]])

\* the `required` keys of the tool's schema that the argument map lacks
MissingRequired(t) == ToolEntry(The(call[t]).name).required \ DOMAIN The(call[t]).args

\* C4: a registered tool called with an argument map that lacks a key of
\* its schema's `required` set issues no request and ends in a failure
\* envelope.
C4_MissingRequiredFailsBeforeNetwork ==
  \A t \in Tasks : (RegisteredCall(t) /\ MissingRequired(t) # {}) =>
    /\ reqs[t] = <<>>
    /\ Finished(t)
    /\ ret[t] # None
    /\ The(ret[t]).success = FALSE

\* whether the message, a sequence of pieces, has the given piece
Contains(text, piece) == \E i \in DOMAIN text : text[i] = piece

ServerError(t) ==
  /\ Finished(t) /\ RegisteredCall(t) /\ Answered(t)
  /\ The(resp[t]).kind = "http" /\ The(resp[t]).status >= 500

\* C5 as stated: after a 5xx answer handle_tool_call raises nothing and
\* returns {success: false, error: m} where m has the status and the body.
C5_ErrorHasStatusAndBody ==
  \A t \in Tasks : ServerError(t) =>
    /\ exc[t] = None
    /\ ret[t] # None
    /\ DOMAIN The(ret[t]) = {"success", "error"}
    /\ The(ret[t]).success = FALSE
    /\ Contains(The(ret[t]).error, StatusStr(The(resp[t]).status))
    /\ Contains(The(ret[t]).error, The(resp[t]).body)

\* C5 amended: after a 5xx answer handle_tool_call raises nothing and
\* returns {success: false, error: m} where m is the text of the status
\* error: it has the status code, the reason phrase and the URL of the
\* request, and it does not have the response body.
C5_ErrorHasStatusOnly ==
  \A t \in Tasks : ServerError(t) =>
    /\ exc[t] = None
    /\ ret[t] # None
    /\ DOMAIN The(ret[t]) = {"success", "error"}
    /\ The(ret[t]).success = FALSE
    /\ LET m == The(ret[t]).error
           r == The(resp[t])
       IN /\ m[1] = "Server error"
          /\ Contains(m, StatusStr(r.status))
          /\ Contains(m, ReasonPhrase(r.status))
          /\ \A i \in DOMAIN reqs[t][1].url : Contains(m, reqs[t][1].url[i])
          /\ ~Contains(m, r.body)

C5_Witness ==
  \E t \in Tasks :
    /\ ServerError(t)
    /\ The(resp[t]) = HttpResponse(500, BodyError)
    /\ ret[t] # None /\ The(ret[t]).success = FALSE
    /\ Contains(The(ret[t]).error, "500")

\* the value the resource operation of a finished call returned, if any
OperationValue(t) ==
  IF DirectCall(t) THEN ret[t]
  ELSE IF ret[t] # None /\ The(ret[t]).success THEN Some(The(ret[t]).result)
  ELSE None

HttpAnswer(t) == Finished(t) /\ Issued(t) /\ Answered(t) /\ The(resp[t]).kind = "http"

\* C6: a request answered with 204 returns exactly {success: true, message:
\* "Operation completed successfully"} whatever the body holds, so the body
\* is not parsed; a request answered with another 2xx status returns the
\* parsed JSON body, and returns nothing when the body is not JSON.
C6_NoContentNormalized ==
  \A t \in Tasks : HttpAnswer(t) =>
    LET r == The(resp[t])
    IN /\ r.status = 204 =>
            OperationValue(t) = Some([success |-> TRUE,
                                      message |-> "Operation completed successfully"])
       /\ (is_success(r.status) /\ r.status # 204 /\ ValidJson(r.body)) =>
            OperationValue(t) = Some(ParseJson(r.body))
       /\ (is_success(r.status) /\ r.status # 204 /\ ~ValidJson(r.body)) =>
            OperationValue(t) = None

C6_Witness ==
  \E t \in Tasks :
    /\ HttpAnswer(t) /\ DirectCall(t)
    /\ The(resp[t]) = HttpResponse(204, BodyContact)
    /\ ret[t] = Some([success |-> TRUE, message |-> "Operation completed successfully"])

DeleteContactTool(t) == ToolCall(t) /\ The(call[t]).name = "delete_contact"

\* C7 as stated: invoking the tool delete_contact with a contact id returns
\* an envelope, and when the remote answers 204 the envelope is {success:
\* true, result: {success: true, message: "Operation completed successfully"}}.
C7_DeleteContactToolEnvelope ==
  \A t \in Tasks : (DeleteContactTool(t) /\ Finished(t)
                    /\ "contact_id" \in DOMAIN The(call[t]).args) =>
    /\ exc[t] = None
    /\ (Answered(t) /\ The(resp[t]).status = 204) =>
         ret[t] = Some([success |-> TRUE,
                        result |-> [success |-> TRUE,
                                    message |-> "Operation completed successfully"]])

\* C7 amended: delete_contact is not a registered tool, the dispatcher raises
\* "Unknown tool" for it; the resource operation delete_contact of the client,
\* answered 204, returns {success: true, message: "Operation completed
\* successfully"}; every registered tool whose request is answered 204
\* returns {success: true, result: {success: true, message: ...}}.
C7_DeleteContactNormalized ==
  \A t \in Tasks :
    /\ DeleteContactTool(t) =>
         /\ Finished(t) /\ ret[t] = None /\ reqs[t] = <<>>
         /\ exc[t] # None /\ The(exc[t]).text = <<"Unknown tool: ", "delete_contact">>
    /\ (DirectCall(t) /\ The(call[t]).name = "delete_contact" /\ HttpAnswer(t)
        /\ The(resp[t]).status = 204) =>
         /\ exc[t] = None
         /\ ret[t] = Some([success |-> TRUE, message |-> "Operation completed successfully"])
    /\ (RegisteredCall(t) /\ HttpAnswer(t) /\ The(resp[t]).status = 204) =>
         /\ exc[t] = None
         /\ ret[t] = Some([success |-> TRUE,
                           result |-> [success |-> TRUE,
                                       message |-> "Operation completed successfully"]])

C7_Witness ==
  \E t \in Tasks :
    /\ DirectCall(t) /\ The(call[t]).name = "delete_contact" /\ HttpAnswer(t)
    /\ The(resp[t]) = HttpResponse(204, BodyEmpty)
    /\ reqs[t][1].method = "DELETE"
    /\ ret[t] = Some([success |-> TRUE, message |-> "Operation completed successfully"])

\* a credential counts as configured when it is set to a non-empty string
Configured(o) == o # None /\ o # Some("")
HasHapikey(req) == req.params # None /\ "hapikey" \in DOMAIN The(req.params)

\* C8: every outbound request carries Authorization: Bearer <token> and no
\* hapikey when a bearer token is configured (API key or not); Authorization:
\* Bearer <api key> and hapikey=<api key> when only an API key is configured,
\* also for operations without query parameters; neither when nothing is
\* configured.
C8_Authentication ==
  \A t \in Tasks : Issued(t) =>
    LET req == reqs[t][1]
        token == config.access_token
        key == config.api_key
    IN /\ Configured(token) =>
            /\ "Authorization" \in DOMAIN req.headers
            /\ req.headers["Authorization"] = <<"Bearer ", The(token)>>
            /\ ~HasHapikey(req)
       /\ (~Configured(token) /\ Configured(key)) =>
            /\ "Authorization" \in DOMAIN req.headers
            /\ req.headers["Authorization"] = <<"Bearer ", The(key)>>
            /\ HasHapikey(req)
            /\ The(req.params)["hapikey"] = The(key)
       /\ (~Configured(token) /\ ~Configured(key)) =>
            /\ "Authorization" \notin DOMAIN req.headers
            /\ ~HasHapikey(req)

C8_Witness ==
  \E t \in Tasks :
    /\ Issued(t) /\ The(call[t]).name = "get_contact"
    /\ config.api_key = Some("key-1") /\ ~Configured(config.access_token)
    /\ reqs[t][1].params = Some([hapikey |-> "key-1"])
    /\ reqs[t][1].headers["Authorization"] = <<"Bearer ", "key-1">>

ShorthandFields == {"email", "firstname", "lastname"}

\* C9: the properties map in the POST body of a create_contact invocation is
\* the caller's explicit properties map (empty when absent) with every
\* shorthand field the arguments hold laid over it: a present shorthand
\* wins, other explicit keys stay, an absent shorthand adds no key.
C9_CreateContactProperties ==
  \A t \in Tasks : (RegisteredCall(t) /\ The(call[t]).name = "create_contact" /\ Issued(t)) =>
    LET a == The(call[t]).args
        explicit == IF "properties" \in DOMAIN a THEN a["properties"] ELSE <<>>
        present == ShorthandFields \cap DOMAIN a
        req == reqs[t][1]
    IN /\ req.method = "POST"
       /\ req.json # None
       /\ DOMAIN The(req.json) = {"properties"}
       /\ LET sent == The(req.json).properties
          IN /\ DOMAIN sent = (DOMAIN explicit) \cup present
             /\ \A k \in present : sent[k] = a[k]
             /\ \A k \in (DOMAIN explicit) \ present : sent[k] = explicit[k]

C9_Witness ==
  \E t \in Tasks :
    /\ RegisteredCall(t) /\ The(call[t]).name = "create_contact" /\ Issued(t)
    /\ The(call[t]).args = [email |-> "a@b.com",
                            properties |-> [email |-> "old@b.com", lastname |-> "Y"]]
    /\ reqs[t][1].json = Some([properties |-> [email |-> "a@b.com", lastname |-> "Y"]])

SearchCall(t) == call[t] # None /\ The(call[t]).name = "search" /\ Issued(t)

\* C10: every search request is a POST to /crm/v3/objects/{object_type}/search
\* with body {filterGroups: [G], limit: L}, G the one group holding all the
\* filters given, in their order; the search tool gives the one filter
\* {propertyName: property, operator: operator or "EQ", value: value} and
\* the limit 100 when the arguments hold none.
C10_SearchBody ==
  \A t \in Tasks : SearchCall(t) =>
    LET a == The(call[t]).args
        req == reqs[t][1]
        given == IF DirectCall(t) THEN a["filters"]
                 ELSE <<[propertyName |-> a["property"],
                         operator |-> IF "operator" \in DOMAIN a THEN a["operator"] ELSE "EQ",
                         value |-> a["value"]]>>
    IN /\ req.method = "POST"
       /\ req.url = <<"https://api.hubapi.com", "/crm/v3/objects/", a["object_type"], "/search">>
       /\ req.json # None
       /\ LET body == The(req.json)
          IN /\ DOMAIN body = {"filterGroups", "limit"}
             /\ Len(body.filterGroups) = 1
             /\ DOMAIN body.filterGroups[1] = {"filters"}
             /\ body.filterGroups[1].filters = given
             /\ body.limit = IF "limit" \in DOMAIN a THEN a["limit"] ELSE 100

C10_Witness ==
  \E t \in Tasks :
    /\ SearchCall(t) /\ DirectCall(t)
    /\ Len(The(call[t]).args["filters"]) = 2
    /\ The(call[t]).args["filters"][1] # The(call[t]).args["filters"][2]
    /\ "limit" \in DOMAIN The(call[t]).args
    /\ The(call[t]).args["limit"] = 10
    /\ The(reqs[t][1].json).filterGroups[1].filters = The(call[t]).args["filters"]

\* a call of get_available_tools
ListingCall(t) == call[t] # None /\ The(call[t]).via = "list"

\* whether the call of task t ended in a failure: an exception raised to
\* the caller or, for a tool, an envelope with success false
Failed(t) ==
  /\ Finished(t)
  /\ \/ exc[t] # None
     \/ ToolCall(t) /\ ret[t] # None /\ The(ret[t]).success = FALSE

\* C11: once the client has been closed, a further close() raises nothing;
\* a resource operation or tool invocation started on the closed client is
\* over in the step that starts it, with a failure and never a success
\* value; and no request is issued by any task from then on.
C11_ClosedClient ==
  [][/\ (closed /\ closes' # closes) => (close_exc' = None /\ closed')
     /\ \A t \in Tasks :
          /\ (closed /\ pc[t] = "idle" /\ pc'[t] # "idle" /\ ~ListingCall(t)') =>
               /\ pc'[t] = "done"
               /\ reqs'[t] = <<>>
               /\ Failed(t)'
          /\ closed => (reqs'[t] = reqs[t] \/ reqs'[t] = <<>>)]_vars

C11_Witness ==
  /\ closes = 2 /\ close_exc = None
  /\ \E t \in Tasks :
       /\ Finished(t) /\ RegisteredCall(t) /\ The(call[t]).name = "get_contact"
       /\ reqs[t] = <<>>
       /\ exc[t] = None
       /\ ret[t] = Some([success |-> FALSE,
                         error |-> <<"Cannot send a request, as the client has been closed.">>])

\* whether the handler of the registered call of task t failed on one of its
\* own lookups in the argument map: the call is over with a failure envelope
\* and no request, and the failure is not that of the closed client
Rejected(t) ==
  /\ Finished(t)
  /\ reqs[t] = <<>>
  /\ ret[t] # None
  /\ The(ret[t]).success = FALSE
  /\ The(ret[t]).error # <<"Cannot send a request, as the client has been closed.">>

\* C12: for every registered tool the `required` set of its schema is
\* exactly the set of keys its handler needs: the handler fails on its own
\* lookups if and only if the argument map lacks a required key.
C12_RequiredIsWhatHandlerNeeds ==
  \A t \in Tasks : RegisteredCall(t) => (Rejected(t) <=> MissingRequired(t) # {})

\* C13: the registry is the one __init__ built in every state, whatever
\* calls were made; each get_available_tools returns one entry per
\* registered tool in registration order, with pairwise distinct names, made
\* of name, description and parameters only (no handler), the description
\* and the schema being those registered.
C13_RegistryReadOnly ==
  /\ tools = _register_tools
  /\ \A t \in Tasks : (Finished(t) /\ ListingCall(t)) =>
       /\ exc[t] = None
       /\ ret[t] # None
       /\ LET l == The(ret[t])
          IN /\ [i \in DOMAIN l |-> l[i].name] =
                  <<"list_contacts", "get_contact", "create_contact", "update_contact",
                    "list_companies", "get_company", "create_company", "list_deals",
                    "search">>
             /\ \A i, j \in DOMAIN l : l[i].name = l[j].name => i = j
             /\ \A i \in DOMAIN l :
                  /\ DOMAIN l[i] = {"name", "description", "parameters"}
                  /\ l[i].description = _register_tools[i].description
                  /\ l[i].parameters = _register_tools[i].parameters

C13_Witness ==
  /\ closed
  /\ \E t \in Tasks :
       /\ Finished(t) /\ ListingCall(t)
       /\ ret[t] # None
       /\ Len(The(ret[t])) = 9
       /\ The(ret[t])[7].name = "create_company"
       /\ The(ret[t])[7].parameters.required = Some(<<"name">>)
       /\ The(ret[t])[1].parameters.required = None

\* whether the remote answered the request of task t with a failure: an
\* HTTP status outside 2xx, a network error or a timeout
RequestFailed(t) ==
  /\ Finished(t) /\ Answered(t)
  /\ \/ The(resp[t]).kind = "error"
     \/ The(resp[t]).kind = "http" /\ ~(200 <= The(resp[t]).status /\ The(resp[t]).status <= 299)

\* the failure envelope of a call stopped by the closed client
ClosedEnvelope ==
  [success |-> FALSE, error |-> <<"Cannot send a request, as the client has been closed.">>]

\* C14 as stated: an invocation of a registered tool issues at most one
\* request, and exactly one when its handler did not fail on its lookups; a
\* failed request is not sent again and its failure is the one envelope the
\* caller gets.
C14_OneRequestPerInvocation ==
  \A t \in Tasks : RegisteredCall(t) =>
    /\ Len(reqs[t]) <= 1
    /\ ~Rejected(t) => Len(reqs[t]) = 1
    /\ RequestFailed(t) =>
         /\ Len(reqs[t]) = 1
         /\ exc[t] = None
         /\ ret[t] # None /\ The(ret[t]).success = FALSE

\* C14 amended: an invocation of a registered tool issues at most one
\* request; when its handler did not fail on its lookups it issues exactly
\* one, unless the client was closed before the invocation started, in which
\* case it issues none and returns the failure envelope of the closed
\* client; a failed request is not sent again and its failure is the one
\* envelope the caller gets.
C14_OneRequestUnlessClosed ==
  \A t \in Tasks : RegisteredCall(t) =>
    /\ Len(reqs[t]) <= 1
    /\ ~Rejected(t) =>
         \/ Len(reqs[t]) = 1
         \/ reqs[t] = <<>> /\ closed /\ Finished(t) /\ exc[t] = None /\ ret[t] = Some(ClosedEnvelope)
    /\ ~closed => (Len(reqs[t]) = 1 <=> ~Rejected(t))
    /\ RequestFailed(t) =>
         /\ Len(reqs[t]) = 1
         /\ exc[t] = None
         /\ ret[t] # None /\ The(ret[t]).success = FALSE

C14_Witness ==
  \E t \in Tasks :
    /\ RegisteredCall(t) /\ The(call[t]).name = "list_deals"
    /\ RequestFailed(t)
    /\ resp[t] = Some(TransportFailure("ReadTimeout"))
    /\ Len(reqs[t]) = 1
    /\ ret[t] = Some([success |-> FALSE, error |-> <<"">>])

\* what the call c builds from its own arguments, run on its own: the
\* request it hands to _request, if binding succeeds
SoloRequest(c) ==
  IF c.via = "tool" THEN CallHandler(ToolEntry(c.name).handler, c.args).rs
  ELSE Some(ClientOp(c.name, c.args))

\* a call of a registered tool or of a resource operation
RequestingCall(t) == RegisteredCall(t) \/ DirectCall(t)

C16_NoWaitingOnOthers ==
  \A t \in Tasks :
    /\ pc[t] = "waiting" =>
         /\ Issued(t) /\ ~Answered(t) /\ ret[t] = None /\ exc[t] = None
         /\ \A r \in ConcurrentRemote : ENABLED Respond(t, r)
    /\ pc[t] = "idle" =>
         \A name \in ConcurrentNames : \A params \in ConcurrentArgs(name) :
           ENABLED Invoke(t, name, params)

\* an invocation accepted while another was suspended has returned its
\* envelope, and the earlier one is still suspended
C16_Witness ==
  \E t, u \in Tasks :
    /\ t # u
    /\ pc[t] = "waiting" /\ RegisteredCall(t)
    /\ t \in ahead[u]
    /\ Finished(u) /\ RegisteredCall(u) /\ Issued(u) /\ Answered(u)
    /\ ret[u] # None /\ The(ret[u]).success = TRUE

\* the resource operations of claim C17 by kind, with the object type and
\* the name of the id argument of each
ListOps == {"get_contacts", "get_companies", "get_deals"}
GetOps == {"get_contact", "get_company", "get_deal"}
CreateOps == {"create_contact", "create_company", "create_deal"}
UpdateOps == {"update_contact", "update_company"}
DeleteOps == {"delete_contact"}
ObjectType(op) ==
  IF op \in {"get_contacts", "get_contact", "create_contact", "update_contact", "delete_contact"}
    THEN "contacts"
  ELSE IF op \in {"get_companies", "get_company", "create_company", "update_company"}
    THEN "companies"
  ELSE "deals"
IdKey(op) ==
  IF ObjectType(op) = "contacts" THEN "contact_id"
  ELSE IF ObjectType(op) = "companies" THEN "company_id"
  ELSE "deal_id"
CollectionPath(op) ==
  CASE ObjectType(op) = "contacts" -> "/crm/v3/objects/contacts"
    [] ObjectType(op) = "companies" -> "/crm/v3/objects/companies"
    [] ObjectType(op) = "deals" -> "/crm/v3/objects/deals"
ObjectPath(op) ==
  CASE ObjectType(op) = "contacts" -> "/crm/v3/objects/contacts/"
    [] ObjectType(op) = "companies" -> "/crm/v3/objects/companies/"
    [] ObjectType(op) = "deals" -> "/crm/v3/objects/deals/"

\* the keys of the query of a request that the resource operation put
\* there: all but the hapikey the transport adds
QueryKeys(req) == IF req.params = None THEN {} ELSE DOMAIN The(req.params) \ {"hapikey"}

\* whether text is the items joined with commas
CommaJoined(text, items) ==
  /\ Len(text) = 2 * Len(items) - 1
  /\ \A i \in DOMAIN items : text[2 * i - 1] = items[i]
  /\ \A i \in 1 .. Len(items) - 1 : text[2 * i] = ","

\* C17: a resource operation called directly issues the request of its
\* kind -- method, path under the base URL, query and body -- and returns
\* or raises what the transport gives for the answer, unmodified.
C17_ResourceRequests ==
  \A t \in Tasks : (DirectCall(t) /\ The(call[t]).name # "search" /\ Issued(t)) =>
    LET op == The(call[t]).name
        a == The(call[t]).args
        rq == reqs[t][1]
        body == Some([properties |-> a.properties])
    IN /\ Len(reqs[t]) = 1
       /\ op \in ListOps =>
            /\ rq.method = "GET"
            /\ rq.url = <<base_url, CollectionPath(op)>>
            /\ rq.json = None
            /\ "limit" \in QueryKeys(rq)
            /\ The(rq.params).limit = IF "limit" \in DOMAIN a THEN a.limit ELSE 100
            /\ QueryKeys(rq) \subseteq {"limit", "properties"}
            /\ "properties" \in QueryKeys(rq) <=>
                 ("properties" \in DOMAIN a /\ a.properties # <<>>)
            /\ "properties" \in QueryKeys(rq) =>
                 CommaJoined(The(rq.params).properties, a.properties)
       /\ op \in GetOps =>
            /\ rq.method = "GET"
            /\ rq.url = <<base_url, ObjectPath(op), a[IdKey(op)]>>
            /\ QueryKeys(rq) = {}
            /\ rq.json = None
       /\ op \in CreateOps =>
            /\ rq.method = "POST"
            /\ rq.url = <<base_url, CollectionPath(op)>>
            /\ QueryKeys(rq) = {}
            /\ rq.json = body
       /\ op \in UpdateOps =>
            /\ rq.method = "PATCH"
            /\ rq.url = <<base_url, ObjectPath(op), a[IdKey(op)]>>
            /\ QueryKeys(rq) = {}
            /\ rq.json = body
       /\ op \in DeleteOps =>
            /\ rq.method = "DELETE"
            /\ rq.url = <<base_url, ObjectPath(op), a[IdKey(op)]>>
            /\ QueryKeys(rq) = {}
            /\ rq.json = None
       /\ (Finished(t) /\ Answered(t)) =>
            /\ ret[t] = RequestResult(rq, The(resp[t])).val
            /\ exc[t] = RequestResult(rq, The(resp[t])).exc

C17_Witness ==
  \E t \in Tasks :
    /\ DirectCall(t) /\ The(call[t]).name = "get_deals" /\ Issued(t)
    /\ The(call[t]).args = [properties |-> <<"email", "firstname">>]
    /\ reqs[t][1].params # None
    /\ "hapikey" \notin DOMAIN The(reqs[t][1].params)
    /\ The(reqs[t][1].params) = [limit |-> 100, properties |-> <<"email", ",", "firstname">>]
    /\ Finished(t)
    /\ resp[t] = Some(HttpResponse(200, BodyList))
    /\ ret[t] # None
    /\ exc[t] = None

\* a call of one of the two tools that take shorthand fields
CreateCall(t) == RegisteredCall(t) /\ The(call[t]).name \in {"create_contact", "create_company"}

\* C18: create_contact and create_company leave the argument object the
\* caller passed, its nested `properties` map included, as it was: once the
\* handler has run, the caller's object still equals the arguments of the
\* call, so no shorthand value has been written into the caller's map.
C18_CallerArgsUnchanged ==
  \A t \in Tasks : (CreateCall(t) /\ argobj[t] # None) =>
    The(argobj[t]) = The(call[t]).args

\* C19: the authentication material of every request is the one of the
\* configuration as it was when the client was built -- the Authorization
\* header and the presence and value of hapikey -- whatever has been
\* assigned to the configuration object since.
C19_CredentialFixedAtConstruction ==
  \A t \in Tasks : Issued(t) =>
    LET req == reqs[t][1]
        token == config0.access_token
        key == config0.api_key
    IN /\ Configured(token) =>
            /\ "Authorization" \in DOMAIN req.headers
            /\ req.headers["Authorization"] = <<"Bearer ", The(token)>>
            /\ ~HasHapikey(req)
       /\ (~Configured(token) /\ Configured(key)) =>
            /\ "Authorization" \in DOMAIN req.headers
            /\ req.headers["Authorization"] = <<"Bearer ", The(key)>>
            /\ HasHapikey(req)
            /\ The(req.params)["hapikey"] = The(key)
       /\ (~Configured(token) /\ ~Configured(key)) =>
            /\ "Authorization" \notin DOMAIN req.headers
            /\ ~HasHapikey(req)

\* C20: a close() that runs while invocations are suspended in their
\* network call raises nothing, and each of those invocations, when its
\* network call ends, returns an envelope and raises nothing.
C20_CloseWhileInFlight ==
  [][/\ (Suspended # {} /\ closes' # closes) => close_exc' = None
     /\ \A t \in Tasks :
          (closed /\ pc[t] = "waiting" /\ RegisteredCall(t) /\ pc'[t] # "waiting") =>
            /\ pc'[t] = "done"
            /\ exc'[t] = None
            /\ ret'[t] # None
            /\ "success" \in DOMAIN The(ret'[t])]_vars

\* the kinds of failure of the network on the way to the remote
NetworkErrors == {"ConnectError", "ReadTimeout"}

\* C21: _request, reached by a direct call of a resource operation, keeps
\* the kinds of failure apart.  An answer with a status outside 2xx makes it
\* raise the HTTP status error, which carries that status and that body, and
\* return nothing; a connection failure or a timeout makes it raise the
\* network error of that name, which carries no response; each is the
\* exception the HTTP library raised, and neither kind arises from the other
\* kind of answer.
C21_FailureKindsApart ==
  \A t \in Tasks : (DirectCall(t) /\ Finished(t) /\ Answered(t)) =>
    LET r == The(resp[t])
        non2xx == r.kind = "http" /\ ~(200 <= r.status /\ r.status <= 299)
    IN /\ non2xx =>
            /\ ret[t] = None
            /\ exc[t] # None
            /\ The(exc[t]).type = "HTTPStatusError"
            /\ The(exc[t]).status = r.status
            /\ The(exc[t]).body = r.body
            /\ The(exc[t]).text = HTTPStatusText(reqs[t][1], r.status)
       /\ r.kind = "error" =>
            /\ ret[t] = None
            /\ exc[t] # None
            /\ The(exc[t]).type = r.error
            /\ The(exc[t]).type \in NetworkErrors
            /\ The(exc[t]).status = 0 /\ The(exc[t]).body = ""
            /\ The(exc[t]).text = TransportText(r.error)
       /\ (exc[t] # None /\ The(exc[t]).type = "HTTPStatusError") => non2xx
       /\ (exc[t] # None /\ The(exc[t]).type \in NetworkErrors) => r.kind = "error"
       /\ ret[t] # None => (r.kind = "http" /\ 200 <= r.status /\ r.status <= 299)

C21_Witness ==
  \E t \in Tasks :
    /\ DirectCall(t) /\ Finished(t) /\ The(call[t]).name = "update_company"
    /\ resp[t] = Some(HttpResponse(404, BodyError))
    /\ ret[t] = None
    /\ exc[t] # None
    /\ The(exc[t]).type = "HTTPStatusError"
    /\ The(exc[t]).status = 404
    /\ The(exc[t]).body = "{\"message\": \"boom\"}"

====
